---- MODULE Spec2Model ----
(***************************************************************************)
(* Two-wire water-meter link: the MTU session (clock generator / sampler,  *)
(* frame reassembler, statistics) of src/mtu/gpio_mtu.rs, the frame codec  *)
(* of src/mtu/uart_framing.rs, and the METER bit-pump of                   *)
(* src/bin/meter_app.rs with the encoder of src/meter/handler.rs.          *)
(*                                                                         *)
(* Time is counted in ticks from the start of a transaction.  All tasks of *)
(* one role run on one cooperative executor, so the code between two       *)
(* suspension points is one atomic step.  A poll of the transaction future *)
(* select(select(clock_task, data_task), timeout_task) polls the clock     *)
(* task, then the data task, then the duration timer (phase = "clock",     *)
(* "data", "timeout"), and then sleeps until the next timer (phase =       *)
(* "sleep").                                                               *)
(***************************************************************************)
EXTENDS Integers, Sequences, FiniteSets, TLC

\* ------------------------------------------------------------------ bounds
MaxEvents == 2         \* commands (run_once, run_test, stop, settings) per behaviour
MaxIterations == 2     \* largest n of run_test(n)
HalfCycle == 2         \* ticks in one half clock cycle at the default baud rate
PowerUpTicks == 1      \* ticks of the power-up hold
TestCycles == 34       \* clock cycles that fit in the 10 s test duration
LongCycles == 36       \* clock cycles that fit in the longest run_once duration
TickMicros == 208      \* microseconds in one tick
SlowBaud == 600        \* a baud rate set by set_baud_rate: half the default rate
MaxPulses == 40        \* pulse_count stops counting here (wake_up_threshold is 10)
MaxCandidateLen == 12  \* longest candidate bit sequence handed to the frame codec

\* ------------------------------------------------------- program constants
CR == 13
DefaultBaud == 1200
ChannelCapacity == 64
ReceivedCharsCapacity == 256
WakeUpThreshold == 10

BitTimeoutTicks == 4 * HalfCycle          \* 2 s, at least 4 half cycles (baud >= 1)
TestDuration == TestCycles * 2 * HalfCycle
Durations == {2 * HalfCycle + 1, 3 * HalfCycle + 1, LongCycles * 2 * HalfCycle}

Framings == {"SevenE1", "SevenE2"}
None == <<>>
Some(x) == <<x>>

\* -------------------------------------------------------------- frame codec
bits_per_frame(framing) == IF framing = "SevenE1" THEN 10 ELSE 11

RECURSIVE Ones(_)
Ones(bits) == IF bits = <<>> THEN 0 ELSE (IF Head(bits) = 1 THEN 1 ELSE 0) + Ones(Tail(bits))

UartFrame_new(bits, framing) ==
  IF Len(bits) # bits_per_frame(framing) THEN "FramingError" ELSE "Ok"

\* variant of validate: the parity is computed over six data bits
validate_short_parity(bits, framing) ==
  IF Len(bits) # bits_per_frame(framing) THEN "FramingErrorInvalidBitCount"
  ELSE IF bits[1] # 0 THEN "FramingErrorInvalidStartBit"
  ELSE IF \/ (framing = "SevenE1" /\ bits[10] # 1)
          \/ (framing = "SevenE2" /\ (bits[10] # 1 \/ bits[11] # 1))
       THEN "FramingErrorInvalidStopBit"
  ELSE IF bits[9] # (IF Ones(SubSeq(bits, 2, 7)) % 2 = 0 THEN 0 ELSE 1)
       THEN "FramingErrorParityMismatch"
  ELSE "Ok"

validate(bits, framing) ==
  IF Len(bits) # bits_per_frame(framing) THEN "FramingErrorInvalidBitCount"
  ELSE IF bits[1] # 0 THEN "FramingErrorInvalidStartBit"
  ELSE IF \/ (framing = "SevenE1" /\ bits[10] # 1)
          \/ (framing = "SevenE2" /\ (bits[10] # 1 \/ bits[11] # 1))
       THEN "FramingErrorInvalidStopBit"
  ELSE IF bits[9] # (IF Ones(SubSeq(bits, 2, 8)) % 2 = 0 THEN 0 ELSE 1)
       THEN "FramingErrorParityMismatch"
  ELSE "Ok"

\* variant of CharValue: the slice starts at the start bit
RECURSIVE CharValue_from_start(_, _)
CharValue_from_start(bits, i) ==
  IF i > 7 THEN 0
  ELSE (IF bits[i] = 1 THEN 2 ^ (i - 1) ELSE 0) + CharValue_from_start(bits, i + 1)

RECURSIVE CharValue(_, _)
CharValue(bits, i) ==
  IF i > 7 THEN 0 ELSE (IF bits[1 + i] = 1 THEN 2 ^ (i - 1) ELSE 0) + CharValue(bits, i + 1)

extract_char_from_frame(bits, framing) ==
  LET v == validate(bits, framing) IN
  IF v # "Ok" THEN [err |-> v, ch |-> 0]
  ELSE IF CharValue(bits, 1) <= 127 THEN [err |-> "Ok", ch |-> CharValue(bits, 1)]
  ELSE [err |-> "FramingError", ch |-> 0]

\* the match on UartFrame::new followed by extract_char_from_frame in data_task
DecodeFrame(bits, framing) ==
  IF UartFrame_new(bits, framing) # "Ok"
    THEN [err |-> UartFrame_new(bits, framing), ch |-> 0]
    ELSE extract_char_from_frame(bits, framing)

\* ------------------------------------------------------------------- state
VARIABLES
  running,        \* GpioMtu.running
  last_message,   \* GpioMtu.last_message: None or Some(message)
  bit_channel,    \* GpioMtu.bit_channel
  config,         \* GpioMtu.config: framing, expected_message, successful_reads, corrupted_reads
  clk,            \* level of the CLK line (the MTU's clock_pin)
  data_line,      \* level of the DATA line (what data_pin.is_high() reads)
  edge_pending,   \* a rising CLK edge the far end has not handled yet
  op,             \* the session operation in progress (run_once / run_test frame)
  result,         \* value returned by the last run_test: None or Some(<<s, c>>)
  events,         \* commands issued so far
  phase,          \* position in the poll of the transaction future
  now,            \* ticks since the transaction started
  deadline,       \* expiry of timeout_task
  clock,          \* clock_task: pc, timer, clock_cycle_count
  dt,             \* data_task: pc, frame_bits, received_chars, bit_timer
  tx,             \* observation of the current transaction (history, not program state)
  wire,           \* scripted far end: the bit pattern it shifts out, cyclically
  wire_pos,       \* scripted far end: index of the bit shifted out last
  meter,          \* fast_clock_response_task: pulse_count, bit_index, transmitting, response_bits
  meter_config,   \* MeterHandler.config: meter_type, response_message, enabled
  long_gap,       \* more than pulse_timeout has passed since the last rising edge
  unit,           \* one application of a codec / configuration function: inputs and result
  test,           \* the METER's test command in progress: active, bits still to drive
  dummy_data_pin  \* level of P0.05, the data_pin owned by the MeterHandler

mtuVars == <<running, last_message, bit_channel, config, clk, op, result, events,
             phase, now, deadline, clock, dt, tx>>
wireVars == <<wire, wire_pos>>
meterVars == <<meter, meter_config, long_gap>>
testVars == <<test, dummy_data_pin>>
farVars == <<data_line, wireVars, meterVars, unit, testVars>>
vars == <<mtuVars, edge_pending, farVars>>

Messages == {<<CR>>, <<65, CR>>}

IdleOp == [kind |-> "none", pc |-> "idle", duration |-> 0, iterations |-> 0, iteration |-> 0,
           successful_messages |-> 0, corrupted_messages |-> 0, s0 |-> 0, c0 |-> 0]
IdleClock == [pc |-> "start", timer |-> 0, cycle |-> 0, half_cycle |-> 0,
              config_guard |-> FALSE]
IdleData == [pc |-> "hunt", frame_bits |-> <<>>, received_chars |-> <<>>, bit_timer |-> 0,
             config_guard |-> FALSE]
NoTx == [samples |-> <<>>, dequeued |-> <<>>, dropped |-> 0, stores |-> 0, ended |-> "none",
         last0 |-> None, s0 |-> 0, c0 |-> 0, graded |-> 0, cycles |-> 0, late |-> 0,
         stopped |-> FALSE, meter_idle0 |-> FALSE, baud0 |-> 0, partial |-> None,
         stop_now |-> 0]

NoUnit == [kind |-> "none", framing |-> "SevenE1", byte |-> 0, bits |-> <<>>, base |-> <<>>,
           flip |-> 0, validated |-> None, decoded |-> None, baud |-> 0, cycle |-> None,
           chan |-> <<>>, sent |-> None, diag |-> "none", clk |-> 0, chars |-> <<>>,
           stored |-> None]

\* ---------------------------------------------------------- session helpers
\* MtuConfig::bit_duration_micros: 1_000_000 / baud_rate in u64; a zero divisor panics
bit_duration_micros(baud) ==
  IF baud = 0 THEN [panic |-> TRUE, micros |-> 0]
  ELSE [panic |-> FALSE, micros |-> 1000000 \div baud]

\* clock_task lines 420-423: half of MtuConfig::bit_duration, in ticks
half_cycle_ticks(baud) == (bit_duration_micros(baud).micros \div 2) \div TickMicros

\* variant of record_message_result: a message that merely ends with the expected one
\* is graded a success
record_message_result_suffix(cfg, received) ==
  IF /\ received # None
     /\ Len(received[1]) >= Len(cfg.expected_message)
     /\ SubSeq(received[1], Len(received[1]) - Len(cfg.expected_message) + 1,
               Len(received[1])) = cfg.expected_message
    THEN [config |-> [cfg EXCEPT !.successful_reads = @ + 1], success |-> TRUE]
    ELSE [config |-> [cfg EXCEPT !.corrupted_reads = @ + 1], success |-> FALSE]

\* GpioMtu::record_message_result: the new config and the returned flag
record_message_result(cfg, received) ==
  IF received # None /\ received[1] = cfg.expected_message
    THEN [config |-> [cfg EXCEPT !.successful_reads = @ + 1], success |-> TRUE]
    ELSE [config |-> [cfg EXCEPT !.corrupted_reads = @ + 1], success |-> FALSE]

\* variant of try_send: the bit is queued twice
try_send_twice(channel, bit) ==
  IF Len(channel) + 1 < ChannelCapacity THEN channel \o <<bit, bit>> ELSE channel

\* variant of try_send: the channel accepts a bit whatever it already holds
try_send_unbounded(channel, bit) == Append(channel, bit)

\* Sender::try_send on the bounded channel: a full channel drops the bit
try_send(channel, bit) ==
  IF Len(channel) < ChannelCapacity THEN Append(channel, bit) ELSE channel

\* variant of sample_bit: inverted polarity
sample_bit_inverted(level) == IF level = 1 THEN 0 ELSE 1

\* clock_task lines 440-441: the bit read from the DATA pin
sample_bit(level) == IF level = 1 THEN 1 ELSE 0

\* variant of Finish: CLK is left where the cancelled clock task had it
Finish_no_park(how, t) ==
  /\ clk' = clk
  /\ edge_pending' = edge_pending
  /\ running' = FALSE
  /\ op' = [op EXCEPT !.pc = "grade"]
  /\ phase' = "sleep"
  /\ tx' = [t EXCEPT !.ended = how]

\* run_mtu_operation lines 370-399: park CLK HIGH, clear running; the caller grades next
Finish(how, t) ==
  /\ clk' = 1
  /\ edge_pending' = (edge_pending \/ clk = 0)
  /\ running' = FALSE
  /\ op' = [op EXCEPT !.pc = "grade"]
  /\ phase' = "sleep"
  /\ tx' = [t EXCEPT !.ended = how]

\* run_mtu_operation lines 325-342: running = true, CLK HIGH, power-up hold
BeginTransaction(o, lm) ==
  /\ running' = TRUE
  /\ clk' = 1
  /\ edge_pending' = (edge_pending \/ clk = 0)
  /\ op' = [o EXCEPT !.pc = "powerup"]
  /\ now' = 0
  /\ deadline' = 0
  /\ phase' = "sleep"
  /\ clock' = IdleClock
  /\ dt' = IdleData
  /\ last_message' = lm
  /\ tx' = [NoTx EXCEPT !.last0 = lm, !.s0 = config.successful_reads,
                        !.c0 = config.corrupted_reads,
                        !.meter_idle0 = (~meter.transmitting /\ meter.pulse_count = 0),
                        !.baud0 = config.baud_rate]

\* --------------------------------------------------------- session actions
\* CLI mtu_start: GpioMtu::start, then run_mtu_operation_with_stats up to the power-up hold
StartOnce(d) ==
  /\ op.pc = "idle" /\ events < MaxEvents /\ ~edge_pending
  /\ BeginTransaction([IdleOp EXCEPT !.kind = "once", !.duration = d,
                              !.s0 = config.successful_reads,
                              !.c0 = config.corrupted_reads], last_message)
  /\ events' = events + 1
  /\ UNCHANGED <<bit_channel, config, result, farVars>>

\* GpioMtu::run_test up to the power-up hold of iteration 1 (or its return when n = 0)
StartTest(n) ==
  /\ op.pc = "idle" /\ events < MaxEvents /\ ~edge_pending
  /\ events' = events + 1
  /\ IF n = 0
       THEN /\ result' = Some(<<0, 0>>)
            /\ op' = [IdleOp EXCEPT !.kind = "test", !.s0 = config.successful_reads,
                                    !.c0 = config.corrupted_reads]
            /\ phase' = "sleep" /\ now' = 0 /\ deadline' = 0
            /\ clock' = IdleClock /\ dt' = IdleData /\ tx' = NoTx
            /\ UNCHANGED <<running, last_message, clk, edge_pending>>
       ELSE /\ BeginTransaction([IdleOp EXCEPT !.kind = "test", !.duration = TestDuration,
                                        !.iterations = n, !.iteration = 1,
                                        !.s0 = config.successful_reads,
                                        !.c0 = config.corrupted_reads], None)
            /\ result' = None
  /\ UNCHANGED <<bit_channel, config, farVars>>

\* variant of PowerUpDone: the clock starts without the power-up hold
PowerUpDone_no_hold ==
  /\ op.pc = "powerup" /\ ~edge_pending
  /\ now' = 0
  /\ deadline' = op.duration
  /\ op' = [op EXCEPT !.pc = "race"]
  /\ phase' = "clock"
  /\ UNCHANGED <<running, last_message, bit_channel, config, clk, edge_pending, result,
                 events, clock, dt, tx, farVars>>

\* run_mtu_operation lines 342-368: the hold is over, timeout_task is armed and the
\* select is polled for the first time
PowerUpDone ==
  /\ op.pc = "powerup" /\ ~edge_pending
  /\ now' = PowerUpTicks
  /\ deadline' = PowerUpTicks + op.duration
  /\ op' = [op EXCEPT !.pc = "race"]
  /\ phase' = "clock"
  /\ UNCHANGED <<running, last_message, bit_channel, config, clk, edge_pending, result,
                 events, clock, dt, tx, farVars>>

\* GpioMtu::stop, called while the transaction's task is suspended
Stop ==
  /\ op.pc \in {"powerup", "race"} /\ phase = "sleep" /\ running /\ events < MaxEvents
  /\ running' = FALSE
  /\ events' = events + 1
  /\ tx' = [tx EXCEPT !.stopped = TRUE, !.stop_now = now]
  /\ UNCHANGED <<last_message, bit_channel, config, clk, edge_pending, op, result,
                 phase, now, deadline, clock, dt, farVars>>

\* a new command while idle: the frames and the observation of the operation that
\* returned are gone
Forget ==
  /\ op' = IdleOp
  /\ phase' = "sleep"
  /\ now' = 0
  /\ deadline' = 0
  /\ clock' = IdleClock
  /\ dt' = IdleData
  /\ tx' = NoTx
  /\ events' = events + 1

\* GpioMtu::set_expected_message
SetExpectedMessage(m) ==
  /\ op.pc = "idle" /\ events < MaxEvents /\ m # config.expected_message
  /\ config' = [config EXCEPT !.expected_message = m]
  /\ Forget
  /\ UNCHANGED <<running, last_message, bit_channel, clk, edge_pending, result, farVars>>

\* GpioMtu::set_baud_rate, called while idle or while the transaction's task is suspended
SetBaudRate(b) ==
  /\ events < MaxEvents /\ b # config.baud_rate
  /\ config' = [config EXCEPT !.baud_rate = b]
  /\ IF op.pc = "idle"
       THEN Forget
       ELSE /\ op.pc \in {"powerup", "race"} /\ phase = "sleep"
            /\ ~clock.config_guard /\ ~dt.config_guard
            /\ events' = events + 1
            /\ UNCHANGED <<op, phase, now, deadline, clock, dt, tx>>
  /\ UNCHANGED <<running, last_message, bit_channel, clk, edge_pending, result, farVars>>

\* GpioMtu::reset_stats
ResetStats ==
  /\ op.pc = "idle" /\ events < MaxEvents
  /\ config.successful_reads + config.corrupted_reads > 0
  /\ config' = [config EXCEPT !.successful_reads = 0, !.corrupted_reads = 0]
  /\ Forget
  /\ UNCHANGED <<running, last_message, bit_channel, clk, edge_pending, result, farVars>>

\* ------------------------------------------------------ the transaction poll
\* GpioMtu::clock_task, one poll: lines 413-438 (loop check, half_cycle read from the
\* configuration, CLK LOW, arm the half-cycle timer), lines 438-493 (sample, try_send,
\* CLK HIGH, arm the timer), line 496 (return).  config_guard tells whether the guard of
\* the configuration mutex is alive at the timer wait; line 422 drops it (keep_guard is
\* FALSE in the code); check_running is the loop condition of line 413 (TRUE in the code)
ClockPollWith(keep_guard, check_running) ==
  /\ op.pc = "race" /\ phase = "clock"
  /\ IF clock.pc = "low_wait" /\ clock.timer <= now
       THEN /\ bit_channel' = try_send(bit_channel, sample_bit(data_line))
            /\ clk' = 1
            /\ edge_pending' = TRUE
            /\ clock' = [clock EXCEPT !.pc = "high_wait", !.timer = now + clock.half_cycle]
            /\ tx' = [tx EXCEPT !.samples = Append(@, data_line),
                                !.dropped = @ + (IF Len(bit_channel) < ChannelCapacity
                                                   THEN 0 ELSE 1),
                                !.late = @ + (IF tx.stores > 0 THEN 1 ELSE 0)]
            /\ phase' = "data"
            /\ UNCHANGED <<running, last_message, op, dt>>
     ELSE IF clock.pc = "start" \/ (clock.pc = "high_wait" /\ clock.timer <= now)
       THEN IF running \/ ~check_running
              THEN /\ clk' = 0
                   /\ clock' = [pc |-> "low_wait",
                                timer |-> now + half_cycle_ticks(config.baud_rate),
                                cycle |-> clock.cycle + 1,
                                half_cycle |-> half_cycle_ticks(config.baud_rate),
                                config_guard |-> keep_guard]
                   /\ tx' = [tx EXCEPT !.cycles = @ + 1,
                                       !.late = @ + (IF tx.stores > 0 THEN 1 ELSE 0)]
                   /\ phase' = "data"
                   /\ UNCHANGED <<running, last_message, bit_channel, edge_pending, op, dt>>
              ELSE /\ Finish("clock", tx)
                   /\ UNCHANGED <<last_message, bit_channel, clock, dt>>
     ELSE /\ phase' = "data"
          /\ UNCHANGED <<running, last_message, bit_channel, clk, edge_pending, op, clock,
                         dt, tx>>
  /\ UNCHANGED <<config, result, events, now, deadline, farVars>>

\* variant of ClockPoll: the configuration guard is still held at the half-cycle wait
ClockPoll_keep_guard == ClockPollWith(TRUE, TRUE)

\* variant of ClockPoll: the clock task does not look at the running flag
ClockPoll_ignore_stop == ClockPollWith(FALSE, FALSE)

ClockPoll == ClockPollWith(FALSE, TRUE)

\* GpioMtu::data_task lines 680-692: the PartialMessage event raised when the task leaves
\* its loop with characters of an unfinished message (tx.partial records its length)
partial_event(t, chars) ==
  [t EXCEPT !.partial = IF chars # <<>> THEN Some(Len(chars)) ELSE None]

\* GpioMtu::data_task lines 508-530: the start-bit hunt; lines 532-542: the frame size
\* is read under the configuration mutex and the guard is dropped (any_start is FALSE
\* in the code: only a 0 starts a frame); a cleared running flag ends the task through
\* lines 680-694
DataHuntWith(any_start) ==
  /\ op.pc = "race" /\ phase = "data" /\ dt.pc \in {"hunt", "hunt_recv"}
  /\ IF dt.pc = "hunt" /\ ~running
       THEN /\ Finish("data", partial_event(tx, dt.received_chars))
            /\ UNCHANGED <<bit_channel, dt>>
     ELSE IF bit_channel = <<>>
       THEN /\ dt' = [dt EXCEPT !.pc = "hunt_recv"]
            /\ phase' = "timeout"
            /\ UNCHANGED <<running, bit_channel, clk, edge_pending, op, tx>>
     ELSE LET b == Head(bit_channel)
              t == [tx EXCEPT !.dequeued = Append(@, b),
                              !.late = @ + (IF tx.stores > 0 THEN 1 ELSE 0)]
          IN /\ bit_channel' = Tail(bit_channel)
             /\ IF (b = 0 \/ any_start) /\ ~running
                  THEN /\ Finish("data", partial_event(t, dt.received_chars))
                       /\ dt' = dt
                  ELSE /\ dt' = IF b = 0 \/ any_start
                                  THEN [dt EXCEPT !.pc = "gather", !.frame_bits = <<b>>,
                                                  !.config_guard = FALSE]
                                  ELSE [dt EXCEPT !.pc = "hunt"]
                       /\ tx' = t
                       /\ UNCHANGED <<running, clk, edge_pending, op, phase>>
  /\ UNCHANGED <<last_message, config, result, events, now, deadline, clock, farVars>>

\* variant of DataHunt: an idle 1 is taken as the first bit of a frame too
DataHunt_any_start == DataHuntWith(TRUE)

DataHunt == DataHuntWith(FALSE)

\* GpioMtu::data_task lines 545-569: gather the rest of the frame, each bit raced
\* against the 2 s bit timer; an incomplete frame goes back to the hunt
DataGather ==
  /\ op.pc = "race" /\ phase = "data" /\ dt.pc \in {"gather", "gather_recv"}
  /\ ~(dt.pc = "gather" /\ Len(dt.frame_bits) = bits_per_frame(config.framing))
  /\ IF dt.pc = "gather" /\ ~running
       THEN /\ dt' = [dt EXCEPT !.pc = "hunt", !.frame_bits = <<>>]
            /\ UNCHANGED <<bit_channel, phase, tx>>
     ELSE IF bit_channel # <<>>
       THEN /\ bit_channel' = Tail(bit_channel)
            /\ dt' = [dt EXCEPT !.pc = "gather",
                                !.frame_bits = Append(@, Head(bit_channel))]
            /\ tx' = [tx EXCEPT !.dequeued = Append(@, Head(bit_channel)),
                                !.late = @ + (IF tx.stores > 0 THEN 1 ELSE 0)]
            /\ UNCHANGED phase
     ELSE IF dt.pc = "gather"
       THEN /\ dt' = [dt EXCEPT !.pc = "gather_recv", !.bit_timer = now + BitTimeoutTicks]
            /\ phase' = "timeout"
            /\ UNCHANGED <<bit_channel, tx>>
     ELSE IF dt.bit_timer <= now
       THEN /\ dt' = [dt EXCEPT !.pc = "hunt", !.frame_bits = <<>>]
            /\ UNCHANGED <<bit_channel, phase, tx>>
     ELSE /\ phase' = "timeout"
          /\ UNCHANGED <<bit_channel, dt, tx>>
  /\ UNCHANGED <<running, last_message, config, clk, edge_pending, op, result, events,
                 now, deadline, clock, farVars>>

\* heapless::Vec::push on received_chars (line 580): a full vector refuses the character
\* and the result is discarded
push(chars, ch) ==
  IF Len(chars) < ReceivedCharsCapacity THEN Append(chars, ch) ELSE chars

\* GpioMtu::data_task lines 571-677: decode the complete frame; on CR store the message
\* and return (stop_on_cr is the break of line 619)
DataDecodeWith(stop_on_cr) ==
  /\ op.pc = "race" /\ phase = "data" /\ dt.pc = "gather"
  /\ Len(dt.frame_bits) = bits_per_frame(config.framing)
  /\ LET r == DecodeFrame(dt.frame_bits, config.framing)
         chars == IF r.err = "Ok" THEN push(dt.received_chars, r.ch)
                                  ELSE dt.received_chars
     IN IF r.err = "Ok" /\ r.ch = CR
          THEN /\ last_message' = Some(chars)
               /\ dt' = [dt EXCEPT !.pc = "hunt", !.frame_bits = <<>>,
                                   !.received_chars = <<>>]
               /\ IF stop_on_cr
                    THEN Finish("data", [tx EXCEPT !.stores = @ + 1])
                    ELSE /\ tx' = [tx EXCEPT !.stores = @ + 1]
                         /\ UNCHANGED <<running, clk, edge_pending, op, phase>>
          ELSE /\ dt' = [dt EXCEPT !.pc = "hunt", !.frame_bits = <<>>,
                                   !.received_chars = chars]
               /\ UNCHANGED <<running, last_message, clk, edge_pending, op, phase, tx>>
  /\ UNCHANGED <<bit_channel, config, result, events, now, deadline, clock, farVars>>

\* variant of DataDecode: the slot is written after every decoded character
DataDecode_store_partial ==
  /\ op.pc = "race" /\ phase = "data" /\ dt.pc = "gather"
  /\ Len(dt.frame_bits) = bits_per_frame(config.framing)
  /\ LET r == DecodeFrame(dt.frame_bits, config.framing)
         chars == IF r.err = "Ok" THEN push(dt.received_chars, r.ch)
                                  ELSE dt.received_chars
     IN IF r.err = "Ok" /\ r.ch = CR
          THEN /\ last_message' = Some(chars)
               /\ dt' = [dt EXCEPT !.pc = "hunt", !.frame_bits = <<>>,
                                   !.received_chars = <<>>]
               /\ Finish("data", [tx EXCEPT !.stores = @ + 1])
          ELSE /\ dt' = [dt EXCEPT !.pc = "hunt", !.frame_bits = <<>>,
                                   !.received_chars = chars]
               /\ last_message' = IF r.err = "Ok" THEN Some(chars) ELSE last_message
               /\ UNCHANGED <<running, clk, edge_pending, op, phase, tx>>
  /\ UNCHANGED <<bit_channel, config, result, events, now, deadline, clock, farVars>>

\* variant of DataDecode: a frame that fails validation discards the characters
\* accumulated so far
DataDecode_clear_on_error ==
  /\ op.pc = "race" /\ phase = "data" /\ dt.pc = "gather"
  /\ Len(dt.frame_bits) = bits_per_frame(config.framing)
  /\ LET r == DecodeFrame(dt.frame_bits, config.framing)
         chars == IF r.err = "Ok" THEN push(dt.received_chars, r.ch)
                                  ELSE dt.received_chars
     IN IF r.err = "Ok" /\ r.ch = CR
          THEN /\ last_message' = Some(chars)
               /\ dt' = [dt EXCEPT !.pc = "hunt", !.frame_bits = <<>>,
                                   !.received_chars = <<>>]
               /\ Finish("data", [tx EXCEPT !.stores = @ + 1])
          ELSE /\ dt' = [dt EXCEPT !.pc = "hunt", !.frame_bits = <<>>,
                                   !.received_chars = IF r.err = "Ok" THEN chars ELSE <<>>]
               /\ UNCHANGED <<running, last_message, clk, edge_pending, op, phase, tx>>
  /\ UNCHANGED <<bit_channel, config, result, events, now, deadline, clock, farVars>>

\* variant of DataDecode: the data task keeps running after it stored the message
DataDecode_no_break == DataDecodeWith(FALSE)

DataDecode == DataDecodeWith(TRUE)

\* variant of TimeoutPoll: the duration timer never completes
TimeoutPoll_never ==
  /\ op.pc = "race" /\ phase = "timeout"
  /\ phase' = "sleep"
  /\ UNCHANGED <<running, clk, edge_pending, op, tx>>
  /\ UNCHANGED <<last_message, bit_channel, config, result, events, now, deadline,
                 clock, dt, farVars>>

\* run_mtu_operation lines 360-380: timeout_task, polled last
TimeoutPoll ==
  /\ op.pc = "race" /\ phase = "timeout"
  /\ IF deadline <= now
       THEN Finish("timeout", tx)
       ELSE /\ phase' = "sleep"
            /\ UNCHANGED <<running, clk, edge_pending, op, tx>>
  /\ UNCHANGED <<last_message, bit_channel, config, result, events, now, deadline,
                 clock, dt, farVars>>

Min(S) == CHOOSE x \in S : \A y \in S : x <= y

\* the timers the suspended transaction waits on
ArmedTimers ==
  {deadline} \cup (IF clock.pc \in {"low_wait", "high_wait"} THEN {clock.timer} ELSE {})
             \cup (IF dt.pc = "gather_recv" THEN {dt.bit_timer} ELSE {})

\* the executor sleeps until the earliest timer, then polls the transaction again
Sleep ==
  /\ op.pc = "race" /\ phase = "sleep" /\ ~edge_pending
  /\ now' = Min(ArmedTimers)
  /\ phase' = "clock"
  /\ UNCHANGED <<running, last_message, bit_channel, config, clk, edge_pending, op, result,
                 events, deadline, clock, dt, tx, farVars>>

\* variant of Grade: run_test does not count a failed iteration in its return value
Grade_uncounted_failure ==
  /\ op.pc = "grade"
  /\ LET r == record_message_result(config, last_message) IN
       /\ config' = r.config
       /\ op' = IF op.kind = "once"
                  THEN [op EXCEPT !.pc = "idle"]
                  ELSE [op EXCEPT !.pc = "pause",
                          !.successful_messages = @ + (IF r.success THEN 1 ELSE 0)]
  /\ tx' = [tx EXCEPT !.graded = @ + 1]
  /\ UNCHANGED <<running, last_message, bit_channel, clk, edge_pending, result, events,
                 phase, now, deadline, clock, dt, farVars>>

\* run_mtu_operation_with_stats lines 309-313 / run_test lines 254-288: grade the slot
Grade ==
  /\ op.pc = "grade"
  /\ LET r == record_message_result(config, last_message) IN
       /\ config' = r.config
       /\ op' = IF op.kind = "once"
                  THEN [op EXCEPT !.pc = "idle"]
                  ELSE [op EXCEPT !.pc = "pause",
                          !.successful_messages = @ + (IF r.success THEN 1 ELSE 0),
                          !.corrupted_messages = @ + (IF r.success THEN 0 ELSE 1)]
  /\ tx' = [tx EXCEPT !.graded = @ + 1]
  /\ UNCHANGED <<running, last_message, bit_channel, clk, edge_pending, result, events,
                 phase, now, deadline, clock, dt, farVars>>

\* run_test lines 241-245 and 288-296: after the pause, the next iteration or the return
PauseDone ==
  /\ op.pc = "pause" /\ ~edge_pending
  /\ IF op.iteration < op.iterations
       THEN /\ BeginTransaction([op EXCEPT !.iteration = @ + 1], None)
            /\ UNCHANGED result
       ELSE /\ result' = Some(<<op.successful_messages, op.corrupted_messages>>)
            /\ op' = [op EXCEPT !.pc = "idle"]
            /\ UNCHANGED <<running, last_message, clk, edge_pending, phase, now, deadline,
                           clock, dt, tx>>
  /\ UNCHANGED <<bit_channel, config, events, farVars>>

\* ------------------------------------------------------- scripted far end
\* the on-wire frame of a 7-bit character: start, d0..d6, even parity, stop bit(s)
WireFrame(ch, framing) ==
  LET d == [i \in 1..7 |-> (ch \div (2 ^ (i - 1))) % 2] IN
  <<0>> \o d \o <<Ones(d) % 2>> \o (IF framing = "SevenE1" THEN <<1>> ELSE <<1, 1>>)

FlipBit(bits, k) == [bits EXCEPT ![k] = 1 - @]

\* patterns for a session of framing f: idle, all zero, a CR telegram, a two-character
\* telegram, endless frames without CR, endless frames of bad parity, a glitch before a
\* telegram, a good frame followed by one of bad parity
WireScripts(f) ==
  { <<1>>, <<0>>,
    <<1>> \o WireFrame(CR, f),
    <<1, 1>> \o WireFrame(65, f) \o WireFrame(CR, f),
    WireFrame(65, f),
    <<1>> \o FlipBit(WireFrame(CR, f), 9),
    <<0, 1>> \o WireFrame(CR, f),
    WireFrame(65, f) \o <<1>> \o FlipBit(WireFrame(CR, f), 9) }

WireSelect(w) ==
  /\ op.pc = "idle" /\ events < MaxEvents /\ ~edge_pending /\ w # wire
  /\ wire' = w
  /\ wire_pos' = 0
  /\ Forget
  /\ UNCHANGED <<running, last_message, bit_channel, config, clk, result, edge_pending,
                 data_line, meterVars, unit, testVars>>

\* the scripted far end shifts its next bit onto DATA on a rising CLK edge
WireEdge ==
  /\ edge_pending
  /\ wire_pos' = (wire_pos % Len(wire)) + 1
  /\ data_line' = wire[(wire_pos % Len(wire)) + 1]
  /\ edge_pending' = FALSE
  /\ UNCHANGED <<mtuVars, wire, meterVars, unit, testVars>>

\* ------------------------------------------------------------------- METER
MeterTypes == {"Sensus", "Neptune"}

\* MeterType::framing
framing_of(meter_type) == IF meter_type = "Sensus" THEN "SevenE1" ELSE "SevenE2"

\* MeterHandler::build_uart_frame: start bit, the byte's bits for i in 0..8, even parity
\* over the low seven bits, stop bit(s)
build_uart_frame(byte, meter_type) ==
  LET d == [i \in 1..8 |-> (byte \div (2 ^ (i - 1))) % 2]
      parity == Ones(SubSeq(d, 1, 7)) % 2
  IN <<0>> \o d \o <<parity>> \o (IF meter_type = "Sensus" THEN <<1>> ELSE <<1, 1>>)

\* MeterHandler::build_response_frames: the frames of the configured telegram, in order
RECURSIVE FramesOf(_, _)
FramesOf(message, meter_type) ==
  IF message = <<>> THEN <<>>
  ELSE build_uart_frame(Head(message), meter_type) \o FramesOf(Tail(message), meter_type)

build_response_frames(cfg) == FramesOf(cfg.response_message, cfg.meter_type)

\* variant of MeterCount: an edge that ends a long gap is not counted by an idle pump
MeterCount_skip_after_gap(m, gap) ==
  LET t == IF gap /\ m.transmitting
             THEN [m EXCEPT !.transmitting = FALSE, !.bit_index = 0, !.pulse_count = 0,
                            !.fresh = FALSE]
             ELSE m
  IN IF gap /\ ~m.transmitting THEN t
     ELSE [t EXCEPT !.pulse_count = IF @ < MaxPulses THEN @ + 1 ELSE @]

\* variant of MeterCount: the inter-edge timeout also resets an idle pump
MeterCount_reset_idle(m, gap) ==
  LET t == IF gap
             THEN [m EXCEPT !.transmitting = FALSE, !.bit_index = 0, !.pulse_count = 0,
                            !.fresh = FALSE]
             ELSE m
  IN [t EXCEPT !.pulse_count = IF @ < MaxPulses THEN @ + 1 ELSE @]

\* fast_clock_response_task lines 71-85: inter-edge timeout, pulse count
\* (fresh is an observation: no response was abandoned since the pulse count was 0;
\* pulse_count is only compared with wake_up_threshold, so counting stops at MaxPulses)
MeterCount(m, gap) ==
  LET t == IF gap /\ m.transmitting
             THEN [m EXCEPT !.transmitting = FALSE, !.bit_index = 0, !.pulse_count = 0,
                            !.fresh = FALSE]
             ELSE m
  IN [t EXCEPT !.pulse_count = IF @ < MaxPulses THEN @ + 1 ELSE @]

\* variant of MeterWake: the bit index is not advanced past the start bit
MeterWake_index0(m, bits) ==
  [m EXCEPT !.response_bits = bits, !.transmitting = TRUE, !.bit_index = 0]

\* fast_clock_response_task lines 89-104: the wake edge
MeterWake(m, bits) ==
  [m EXCEPT !.response_bits = bits, !.transmitting = TRUE,
            !.bit_index = IF bits # <<>> THEN 1 ELSE 0]

\* fast_clock_response_task lines 64-162: one rising CLK edge.  At the wake edge an empty
\* buffer is rebuilt under the configuration mutex (line 92); if the test command holds
\* the mutex the task is suspended there.  finish_at is 1 and rewake is FALSE in the
\* code; other values give the variants below
MeterEdgeWith(finish_at, rewake) ==
  /\ edge_pending /\ ~meter.rebuilding
  /\ LET m == MeterCount(meter, long_gap) IN
       IF (rewake \/ ~m.transmitting) /\ m.pulse_count >= WakeUpThreshold
         THEN IF m.response_bits = <<>> /\ test.active
                THEN /\ meter' = [m EXCEPT !.rebuilding = TRUE]
                     /\ data_line' = data_line
                ELSE LET bits == IF m.response_bits = <<>>
                                   THEN build_response_frames(meter_config)
                                   ELSE m.response_bits
                     IN /\ meter' = MeterWake(m, bits)
                        /\ data_line' = IF bits # <<>> THEN bits[1] ELSE data_line
       ELSE IF m.transmitting /\ m.bit_index < Len(m.response_bits)
         THEN IF m.bit_index + finish_at >= Len(m.response_bits)
                THEN /\ meter' = [m EXCEPT !.transmitting = FALSE, !.bit_index = 0,
                                           !.pulse_count = 0, !.fresh = TRUE]
                     /\ data_line' = 1
                ELSE /\ meter' = [m EXCEPT !.bit_index = @ + 1]
                     /\ data_line' = m.response_bits[m.bit_index + 1]
       ELSE /\ meter' = m
            /\ data_line' = data_line
  /\ edge_pending' = FALSE
  /\ long_gap' = FALSE
  /\ UNCHANGED <<mtuVars, wireVars, meter_config, unit, testVars>>

\* variant of MeterEdge: the response cycle is closed one edge early
MeterEdge_early_finish == MeterEdgeWith(2, FALSE)

\* variant of MeterEdge: the wake logic also runs while TRANSMITTING
MeterEdge_rewake == MeterEdgeWith(1, TRUE)

MeterEdge == MeterEdgeWith(1, FALSE)

\* fast_clock_response_task line 92 onwards: the mutex is free again, the buffer is
\* rebuilt and the wake edge is completed
MeterRebuilt ==
  /\ meter.rebuilding /\ ~test.active
  /\ LET bits == build_response_frames(meter_config) IN
       /\ meter' = MeterWake([meter EXCEPT !.rebuilding = FALSE], bits)
       /\ data_line' = IF bits # <<>> THEN bits[1] ELSE data_line
  /\ UNCHANGED <<mtuVars, edge_pending, wireVars, meter_config, long_gap, unit, testVars>>

\* a rising edge while the task is not waiting in wait_for_rising_edge goes unnoticed
MeterEdgeLost ==
  /\ edge_pending /\ meter.rebuilding
  /\ edge_pending' = FALSE
  /\ UNCHANGED <<mtuVars, data_line, wireVars, meterVars, unit, testVars>>

\* the CLK input of the METER driven by its environment: a rising edge, more than
\* pulse_timeout after the previous one or not, and the falling edge
ClockRise(gap) ==
  /\ op.pc = "idle" /\ clk = 0 /\ ~edge_pending
  /\ clk' = 1
  /\ edge_pending' = TRUE
  /\ long_gap' = gap
  /\ UNCHANGED <<running, last_message, bit_channel, config, op, result, events, phase,
                 now, deadline, clock, dt, tx, data_line, wireVars, meter, meter_config,
                 unit, testVars>>

ClockFall ==
  /\ op.pc = "idle" /\ clk = 1 /\ ~edge_pending
  /\ clk' = 0
  /\ UNCHANGED <<running, last_message, bit_channel, config, op, result, events, phase,
                 now, deadline, clock, dt, tx, edge_pending, farVars>>

\* MeterHandler::execute_command, the commands that write the configuration
MeterEnable ==
  /\ op.pc = "idle" /\ events < MaxEvents /\ ~edge_pending /\ ~meter_config.enabled
  /\ ~test.active
  /\ meter_config' = [meter_config EXCEPT !.enabled = TRUE]
  /\ Forget
  /\ UNCHANGED <<running, last_message, bit_channel, config, clk, result, edge_pending,
                 data_line, wireVars, meter, long_gap, unit, testVars>>

MeterDisable ==
  /\ op.pc = "idle" /\ events < MaxEvents /\ ~edge_pending /\ meter_config.enabled
  /\ ~test.active
  /\ meter_config' = [meter_config EXCEPT !.enabled = FALSE]
  /\ Forget
  /\ UNCHANGED <<running, last_message, bit_channel, config, clk, result, edge_pending,
                 data_line, wireVars, meter, long_gap, unit, testVars>>

MeterSetType(t) ==
  /\ op.pc = "idle" /\ events < MaxEvents /\ ~edge_pending /\ t # meter_config.meter_type
  /\ ~test.active
  /\ meter_config' = [meter_config EXCEPT !.meter_type = t]
  /\ Forget
  /\ UNCHANGED <<running, last_message, bit_channel, config, clk, result, edge_pending,
                 data_line, wireVars, meter, long_gap, unit, testVars>>

MeterSetMessage(msg) ==
  /\ op.pc = "idle" /\ events < MaxEvents /\ ~edge_pending
  /\ msg # meter_config.response_message
  /\ ~test.active
  /\ meter_config' = [meter_config EXCEPT !.response_message = msg]
  /\ Forget
  /\ UNCHANGED <<running, last_message, bit_channel, config, clk, result, edge_pending,
                 data_line, wireVars, meter, long_gap, unit, testVars>>

\* MeterHandler::execute_command, Status: reads the configuration
MeterStatus ==
  /\ op.pc = "idle" /\ events < MaxEvents /\ ~edge_pending /\ ~test.active
  /\ Forget
  /\ UNCHANGED <<running, last_message, bit_channel, config, clk, result, edge_pending,
                 farVars>>

\* send_response / send_uart_char: the levels the test command drives, one per bit time:
\* for every character its frame and then the idle level
RECURSIVE TestLevels(_, _)
TestLevels(message, meter_type) ==
  IF message = <<>> THEN <<>>
  ELSE build_uart_frame(Head(message), meter_type) \o <<1>>
         \o TestLevels(Tail(message), meter_type)

\* MeterHandler::execute_command, Test: the configuration mutex is taken and held while
\* send_response drives the handler's own data_pin; this step runs up to the first
\* Timer::after of send_uart_char (or to the return when the message is empty)
MeterTest ==
  /\ op.pc = "idle" /\ events < MaxEvents /\ ~edge_pending /\ ~test.active
  /\ LET levels == TestLevels(meter_config.response_message, meter_config.meter_type) IN
       IF levels = <<>>
         THEN UNCHANGED testVars
         ELSE /\ test' = [active |-> TRUE, bits |-> Tail(levels)]
              /\ dummy_data_pin' = Head(levels)
  /\ Forget
  /\ UNCHANGED <<running, last_message, bit_channel, config, clk, result, edge_pending,
                 data_line, wireVars, meterVars, unit>>

\* variant of MeterTestBit: the test command drives the DATA line of the link
MeterTestBit_link_pin ==
  /\ test.active
  /\ IF test.bits = <<>>
       THEN /\ test' = [active |-> FALSE, bits |-> <<>>]
            /\ UNCHANGED data_line
       ELSE /\ test' = [test EXCEPT !.bits = Tail(@)]
            /\ data_line' = Head(test.bits)
  /\ UNCHANGED <<mtuVars, edge_pending, dummy_data_pin, wireVars, meterVars, unit>>

\* send_uart_char: a bit time is over; the next level is driven, or the command returns
\* and the configuration mutex is released
MeterTestBit ==
  /\ test.active
  /\ IF test.bits = <<>>
       THEN /\ test' = [active |-> FALSE, bits |-> <<>>]
            /\ UNCHANGED dummy_data_pin
       ELSE /\ test' = [test EXCEPT !.bits = Tail(@)]
            /\ dummy_data_pin' = Head(test.bits)
  /\ UNCHANGED <<mtuVars, edge_pending, data_line, wireVars, meterVars, unit>>

\* more than pulse_timeout (2 s) passes between two operations of the MTU
LongIdle ==
  /\ op.pc = "idle" /\ events < MaxEvents /\ ~edge_pending /\ ~long_gap
  /\ long_gap' = TRUE
  /\ UNCHANGED <<mtuVars, edge_pending, data_line, wireVars, meter, meter_config, unit,
                 testVars>>

\* ------------------------------------------- codec and configuration functions
\* baud rates handed to set_baud_rate (u32): 0, the slowest, the default, the CLI's
\* documented maximum, the fastest with a non-zero bit time, and faster ones
Bauds == {0, 1, 1200, 115200, 1000000, 1000001, 2000000}

CandidateLens == (bits_per_frame("SevenE1") - 1) .. MaxCandidateLen

unitIdle == op.pc = "idle" /\ unit.kind = "none"

\* MeterHandler::build_uart_frame applied to one byte
UnitEncode ==
  /\ unitIdle
  /\ \E b \in 0..255, t \in MeterTypes :
       unit' = [NoUnit EXCEPT !.kind = "encoded", !.framing = framing_of(t), !.byte = b,
                              !.bits = build_uart_frame(b, t)]
  /\ UNCHANGED <<mtuVars, edge_pending, data_line, wireVars, meterVars, testVars>>

\* bits_to_frame input: any bit sequence
UnitCandidate ==
  /\ unitIdle
  /\ \E n \in CandidateLens, f \in Framings : \E bits \in [1..n -> {0, 1}] :
       unit' = [NoUnit EXCEPT !.kind = "candidate", !.framing = f, !.bits = bits]
  /\ UNCHANGED <<mtuVars, edge_pending, data_line, wireVars, meterVars, testVars>>

\* one data bit or the parity bit of a well-formed candidate is inverted
UnitFlip(k) ==
  /\ unit.kind = "candidate" /\ unit.validated = None /\ unit.decoded = None
  /\ validate(unit.bits, unit.framing) = "Ok"
  /\ unit' = [unit EXCEPT !.kind = "flipped", !.base = unit.bits, !.flip = k,
                          !.bits = FlipBit(unit.bits, k)]
  /\ UNCHANGED <<mtuVars, edge_pending, data_line, wireVars, meterVars, testVars>>

\* UartFrame::validate on the bits
UnitValidate ==
  /\ unit.kind \in {"encoded", "candidate", "flipped"} /\ unit.validated = None
  /\ unit' = [unit EXCEPT !.validated = Some(validate(unit.bits, unit.framing))]
  /\ UNCHANGED <<mtuVars, edge_pending, data_line, wireVars, meterVars, testVars>>

\* bits_to_frame / UartFrame::new followed by extract_char_from_frame
UnitDecode ==
  /\ unit.kind \in {"encoded", "candidate", "flipped"} /\ unit.decoded = None
  /\ unit' = [unit EXCEPT !.decoded = Some(DecodeFrame(unit.bits, unit.framing))]
  /\ UNCHANGED <<mtuVars, edge_pending, data_line, wireVars, meterVars, testVars>>

\* GpioMtu::set_baud_rate
UnitSetBaud(b) ==
  /\ unitIdle
  /\ unit' = [NoUnit EXCEPT !.kind = "baud", !.baud = b]
  /\ UNCHANGED <<mtuVars, edge_pending, data_line, wireVars, meterVars, testVars>>

\* clock_task lines 420-423: the cycle time derived from the configured baud rate
UnitCycleTime ==
  /\ unit.kind = "baud" /\ unit.cycle = None
  /\ unit' = [unit EXCEPT !.cycle = Some(bit_duration_micros(unit.baud))]
  /\ UNCHANGED <<mtuVars, edge_pending, data_line, wireVars, meterVars, testVars>>

\* a bit channel holding k bits that no receiver is draining
UnitFill(k) ==
  /\ unitIdle
  /\ unit' = [NoUnit EXCEPT !.kind = "channel", !.chan = [i \in 1..k |-> 1]]
  /\ UNCHANGED <<mtuVars, edge_pending, data_line, wireVars, meterVars, testVars>>

\* clock_task lines 440-476, one sampling step: the level read from DATA is offered to
\* the channel with try_send, a refused bit raises the ChannelError event, and CLK is
\* driven HIGH whatever try_send returned
UnitSend(level) ==
  /\ unit.kind = "channel" /\ unit.sent = None
  /\ unit' = [unit EXCEPT !.base = unit.chan,
                          !.chan = try_send(unit.chan, sample_bit(level)),
                          !.sent = Some(sample_bit(level)),
                          !.diag = IF try_send(unit.chan, sample_bit(level)) = unit.chan
                                     THEN "ChannelError" ELSE "none",
                          !.clk = 1]
  /\ UNCHANGED <<mtuVars, edge_pending, data_line, wireVars, meterVars, testVars>>

\* data_task lines 508-530: the start-bit hunt over the bits the channel delivers
RECURSIVE Hunt(_)
Hunt(stream) ==
  IF stream = <<>> THEN <<>>
  ELSE IF Head(stream) = 0 THEN stream ELSE Hunt(Tail(stream))

\* data_task lines 541-569: the frame gathered from the start bit on
first_frame(stream, framing) ==
  LET h == Hunt(stream) IN
  IF Len(h) >= bits_per_frame(framing) THEN SubSeq(h, 1, bits_per_frame(framing)) ELSE h

\* clock_task lines 440-462 with a reassembler that is behind: the channel is full when
\* bit k of a frame is offered, try_send refuses it, and the bits offered after the
\* reassembler has caught up are accepted
UnitDrop ==
  /\ unitIdle
  /\ \E ch \in {CR, 65}, f \in Framings :
       \E k \in 1..bits_per_frame(f) :
         LET frame == WireFrame(ch, f)
             queued == [i \in 1..(ChannelCapacity - (k - 1)) |-> 1] \o SubSeq(frame, 1, k - 1)
             rest == SubSeq(frame, k + 1, Len(frame)) \o <<1, 1>> \o WireFrame(CR, f)
         IN unit' = [NoUnit EXCEPT !.kind = "dropped", !.framing = f, !.byte = ch,
                                   !.base = frame, !.flip = k,
                                   !.bits = try_send(queued, frame[k]) \o rest]
  /\ UNCHANGED <<mtuVars, edge_pending, data_line, wireVars, meterVars, testVars>>

\* data_task lines 508-640: the first frame the reassembler gathers and decodes from the
\* delivered bits
UnitReassemble ==
  /\ unit.kind = "dropped" /\ unit.decoded = None
  /\ unit' = [unit EXCEPT
                !.decoded = Some(DecodeFrame(first_frame(unit.bits, unit.framing),
                                             unit.framing))]
  /\ UNCHANGED <<mtuVars, edge_pending, data_line, wireVars, meterVars, testVars>>

\* data_task after k frames of a telegram without CR were decoded
UnitChars(k) ==
  /\ unitIdle
  /\ \E f \in Framings :
       unit' = [NoUnit EXCEPT !.kind = "chars", !.framing = f,
                              !.chars = [i \in 1..k |-> 65]]
  /\ UNCHANGED <<mtuVars, edge_pending, data_line, wireVars, meterVars, testVars>>

\* data_task lines 571-620 on the next complete frame: the character is pushed, and a
\* CR seals the message into the last-message slot and clears the buffer
UnitReceive(ch) ==
  /\ unit.kind = "chars" /\ unit.stored = None
  /\ LET r == DecodeFrame(WireFrame(ch, unit.framing), unit.framing)
         chars == IF r.err = "Ok" THEN push(unit.chars, r.ch) ELSE unit.chars
     IN unit' = IF r.err = "Ok" /\ r.ch = CR
                  THEN [unit EXCEPT !.byte = ch, !.stored = Some(chars), !.chars = <<>>]
                  ELSE [unit EXCEPT !.byte = ch, !.chars = chars]
  /\ UNCHANGED <<mtuVars, edge_pending, data_line, wireVars, meterVars, testVars>>

\* ------------------------------------------------------------ specification
DefaultMeterConfig == [meter_type |-> "Sensus", response_message |-> <<85, 51, 15, CR>>,
                       enabled |-> TRUE]

InitMtu ==
  /\ running = FALSE
  /\ last_message = None
  /\ bit_channel = <<>>
  /\ config \in [framing : Framings, baud_rate : {DefaultBaud}, expected_message : Messages,
                 successful_reads : {0}, corrupted_reads : {0}]
  /\ clk = 0
  /\ data_line = 1
  /\ edge_pending = FALSE
  /\ op = IdleOp
  /\ result = None
  /\ events = 0
  /\ phase = "sleep"
  /\ now = 0
  /\ deadline = 0
  /\ clock = IdleClock
  /\ dt = IdleData
  /\ tx = NoTx
  /\ unit = NoUnit
  /\ test = [active |-> FALSE, bits |-> <<>>]
  /\ dummy_data_pin = 1

Init ==
  /\ InitMtu
  /\ wire \in WireScripts(config.framing)
  /\ wire_pos = 0
  /\ meter = [pulse_count |-> 0, bit_index |-> 0, transmitting |-> FALSE,
              response_bits |-> <<>>, fresh |-> TRUE,
              rebuilding |-> FALSE]
  /\ meter_config = DefaultMeterConfig
  /\ long_gap = FALSE

MtuNext ==
  \/ \E d \in Durations : StartOnce(d)
  \/ \E n \in 0..MaxIterations : StartTest(n)
  \/ PowerUpDone
  \/ Stop
  \/ \E m \in Messages : SetExpectedMessage(m)
  \/ ResetStats
  \/ ClockPoll
  \/ DataHunt
  \/ DataGather
  \/ DataDecode
  \/ TimeoutPoll
  \/ Sleep
  \/ Grade
  \/ PauseDone

Next ==
  \/ MtuNext
  \/ \E w \in WireScripts(config.framing) : WireSelect(w)
  \/ WireEdge

Spec == Init /\ [][Next]_vars

\* the executor runs a task whose timer has fired, and the far end handles every edge
TxStep ==
  \/ PowerUpDone \/ ClockPoll \/ DataHunt \/ DataGather \/ DataDecode \/ TimeoutPoll
  \/ Sleep \/ Grade \/ PauseDone

FairSpec == Spec /\ WF_vars(TxStep) /\ WF_vars(WireEdge)

\* the session with the baud rate written by another task
NextBaud ==
  \/ Next
  \/ \E b \in {DefaultBaud, SlowBaud} : SetBaudRate(b)

SpecBaud == Init /\ [][NextBaud]_vars

\* the composed link: the MTU session clocking the METER bit-pump
InitLink ==
  /\ InitMtu
  /\ wire = <<1>>
  /\ wire_pos = 0
  /\ meter_config \in [meter_type : MeterTypes, response_message : Messages,
                        enabled : {TRUE}]
  /\ meter = [pulse_count |-> 0, bit_index |-> 0, transmitting |-> FALSE,
              response_bits |-> build_response_frames(meter_config), fresh |-> TRUE,
              rebuilding |-> FALSE]
  /\ long_gap = FALSE

NextLink ==
  \/ MtuNext
  \/ MeterEdge
  \/ MeterEnable
  \/ MeterDisable
  \/ \E t \in MeterTypes : MeterSetType(t)
  \/ \E msg \in Messages : MeterSetMessage(msg)
  \/ LongIdle

SpecLink == InitLink /\ [][NextLink]_vars

\* the METER program alone: its bit-pump clocked by the environment, and its CLI
PumpMessages == {<<>>, <<CR>>}

InitPump ==
  /\ InitMtu
  /\ config.framing = "SevenE1" /\ config.expected_message = <<CR>>
  /\ wire = <<1>>
  /\ wire_pos = 0
  /\ meter_config \in [meter_type : MeterTypes, response_message : PumpMessages,
                        enabled : {TRUE}]
  /\ meter = [pulse_count |-> 0, bit_index |-> 0, transmitting |-> FALSE,
              response_bits |-> build_response_frames(meter_config), fresh |-> TRUE,
              rebuilding |-> FALSE]
  /\ long_gap = FALSE

NextPump ==
  \/ \E gap \in BOOLEAN : ClockRise(gap)
  \/ ClockFall
  \/ MeterEdge
  \/ MeterEdgeLost
  \/ MeterRebuilt
  \/ MeterEnable
  \/ MeterDisable
  \/ \E t \in MeterTypes : MeterSetType(t)
  \/ \E msg \in Messages : MeterSetMessage(msg)
  \/ MeterStatus
  \/ MeterTest
  \/ MeterTestBit

SpecPump == InitPump /\ [][NextPump]_vars

\* edges keep arriving, the executor runs a task that can run
FairPump ==
  /\ SpecPump
  /\ WF_vars(\E gap \in BOOLEAN : ClockRise(gap)) /\ WF_vars(ClockFall)
  /\ WF_vars(MeterEdge) /\ WF_vars(MeterEdgeLost) /\ WF_vars(MeterRebuilt)
  /\ WF_vars(MeterTestBit)

\* the codec and configuration functions applied to inputs drawn from their domains
InitUnit ==
  /\ InitMtu
  /\ config.framing = "SevenE1" /\ config.expected_message = <<CR>>
  /\ wire = <<1>>
  /\ wire_pos = 0
  /\ meter = [pulse_count |-> 0, bit_index |-> 0, transmitting |-> FALSE,
              response_bits |-> <<>>, fresh |-> TRUE,
              rebuilding |-> FALSE]
  /\ meter_config = DefaultMeterConfig
  /\ long_gap = FALSE

NextUnit ==
  \/ UnitEncode
  \/ UnitCandidate
  \/ \E k \in 2..9 : UnitFlip(k)
  \/ UnitValidate
  \/ UnitDecode
  \/ \E b \in Bauds : UnitSetBaud(b)
  \/ UnitCycleTime
  \/ \E k \in 0..ChannelCapacity : UnitFill(k)
  \/ \E level \in {0, 1} : UnitSend(level)
  \/ UnitDrop
  \/ UnitReassemble
  \/ \E k \in 0..ReceivedCharsCapacity : UnitChars(k)
  \/ \E ch \in {66, CR} : UnitReceive(ch)

SpecUnit == InitUnit /\ [][NextUnit]_vars

\* ------------------------------------------------------------------ claims
IsPrefix(p, q) == Len(p) <= Len(q) /\ SubSeq(q, 1, Len(p)) = p

\* C1: in the composed link with the same framing on both sides, a transaction started
\* with the METER idle ends before max_duration with the last-message slot equal to the
\* configured telegram, successful_reads one higher and corrupted_reads unchanged.
C1_HappyPath ==
  (/\ op.kind = "once" /\ op.pc = "idle" /\ tx.graded = 1 /\ ~tx.stopped
   /\ op.duration = LongCycles * 2 * HalfCycle
   /\ tx.meter_idle0 /\ meter_config.enabled
   /\ framing_of(meter_config.meter_type) = config.framing
   /\ meter.response_bits = build_response_frames(meter_config)
   /\ config.expected_message = meter_config.response_message)
  => /\ tx.ended = "data" /\ now < deadline
     /\ last_message = Some(meter_config.response_message)
     /\ config.successful_reads = tx.s0 + 1
     /\ config.corrupted_reads = tx.c0

\* C2: run_test(n) returns counts (s, c) with s + c = n, and the session counters grow
\* by the same s and c; every finished iteration adds one to exactly one returned count
\* and to the matching session counter together.
C2_TestCounts ==
  op.kind = "test" =>
    /\ config.successful_reads = op.s0 + op.successful_messages
    /\ config.corrupted_reads = op.c0 + op.corrupted_messages
    /\ op.successful_messages + op.corrupted_messages =
         (IF op.pc \in {"powerup", "race", "grade"} THEN op.iteration - 1 ELSE op.iteration)
    /\ (op.pc = "idle" =>
          /\ result = Some(<<op.successful_messages, op.corrupted_messages>>)
          /\ op.iteration = op.iterations)

C2_Witness ==
  /\ op.kind = "test" /\ op.pc = "idle" /\ op.iterations = 2
  /\ result = Some(<<1, 1>>)

\* C3: grading a transaction adds one to exactly one of the two session counters, and
\* it is the success counter exactly when the last-message slot equals the expected
\* message byte for byte; an empty slot and any mismatch add one to the corrupted counter.
C3_GradeOneCounter ==
  /\ tx.graded <= 1
  /\ (tx.graded = 0 /\ op.pc \in {"powerup", "race", "grade"}) =>
        (config.successful_reads = tx.s0 /\ config.corrupted_reads = tx.c0)
  /\ tx.graded = 1 =>
        IF last_message = Some(config.expected_message)
          THEN config.successful_reads = tx.s0 + 1 /\ config.corrupted_reads = tx.c0
          ELSE config.successful_reads = tx.s0 /\ config.corrupted_reads = tx.c0 + 1

C3_Witness ==
  /\ tx.graded = 1
  /\ last_message = Some(<<65, CR>>) /\ config.expected_message = <<CR>>
  /\ config.corrupted_reads = tx.c0 + 1

\* C4: a transaction in which no CR-terminated message is decoded before max_duration
\* ends by timeout and adds one to corrupted_reads, leaving successful_reads unchanged,
\* for run_once as for run_test.
C4_TimeoutCountsCorrupted ==
  (tx.graded = 1 /\ tx.stores = 0 /\ ~tx.stopped) =>
    /\ tx.ended = "timeout"
    /\ config.successful_reads = tx.s0
    /\ config.corrupted_reads = tx.c0 + 1

\* C5: with the METER disabled it never drives DATA LOW in response to CLK edges, and
\* the MTU transaction ends at max_duration with the last-message slot unchanged,
\* corrupted_reads one higher and CLK parked HIGH.
C5_DisabledSilent ==
  (tx.graded = 1 /\ ~tx.stopped /\ ~meter_config.enabled /\ tx.meter_idle0) =>
    /\ \A i \in 1..Len(tx.samples) : tx.samples[i] = 1
    /\ data_line = 1
    /\ tx.ended = "timeout"
    /\ last_message = tx.last0
    /\ config.corrupted_reads = tx.c0 + 1
    /\ clk = 1

\* C6: every transaction eventually ends, whatever DATA carries, and it ends in the
\* step in which the first ending event is seen: a stored CR-terminated message, the
\* expiry of max_duration, or a sampler return after the running flag was cleared.
C6_Ends ==
  /\ [](op.pc = "race" => (tx.stores = 0 /\ now <= deadline
                            /\ (phase = "sleep" => now < deadline)))
  /\ [](tx.ended \in {"clock", "data"} => (tx.stores = 1 \/ tx.stopped))
  /\ (op.pc \in {"powerup", "race"}) ~> (op.pc = "grade")

C6_Witness ==
  /\ tx.ended = "timeout" /\ op.pc = "grade" /\ ~tx.stopped
  /\ wire = WireFrame(65, config.framing)
  /\ Len(dt.received_chars) >= 2

\* C7: whenever a transaction returns, however it ended and wherever the clock task was
\* cancelled (also in its LOW half cycle), CLK is HIGH and the running flag is false.
C7_ParkedHigh ==
  (tx.ended # "none" /\ op.pc \in {"grade", "pause", "idle"}) => (clk = 1 /\ ~running)

C7_Witness ==
  /\ tx.ended = "timeout" /\ op.pc = "grade"
  /\ clock.pc = "low_wait"
  /\ clk = 1 /\ ~running

\* C8: once a CR-terminated message is stored the transaction is over: no clock cycle,
\* no enqueue and no dequeue follows, and the slot is written at most once per
\* transaction.
C8_NothingAfterStore ==
  /\ tx.late = 0
  /\ tx.stores <= 1
  /\ tx.stores = 1 => (tx.ended = "data" /\ op.pc # "race")

C8_Witness ==
  /\ tx.stores = 1 /\ tx.ended = "data" /\ op.pc = "idle"
  /\ last_message = Some(<<65, CR>>)

\* C9: when the bit queue drops nothing, the bits the reassembler takes out are a
\* prefix, in order, of the DATA samples the clock task took in the same transaction.
C9_DequeuedPrefix ==
  tx.dropped = 0 => IsPrefix(tx.dequeued, tx.samples)

C9_Witness ==
  /\ tx.dropped = 0 /\ tx.stores = 1
  /\ Len(tx.dequeued) >= 2 * bits_per_frame(config.framing)
  /\ tx.dequeued = tx.samples

\* C10: from IDLE with pulse count 0 the METER leaves DATA HIGH on rising edges 1 to 9
\* and wakes on the 10th: it enters TRANSMITTING, drives DATA to bit 0 of the buffer
\* (the start bit, LOW) and sets the bit index to 1.
C10_WakeOnTenth ==
  /\ (meter.fresh /\ ~meter.transmitting) =>
        (meter.pulse_count < WakeUpThreshold /\ data_line = 1)
  /\ meter.transmitting => meter.pulse_count >= WakeUpThreshold
  /\ (meter.transmitting /\ meter.pulse_count = WakeUpThreshold) =>
        (meter.bit_index = 1 /\ data_line = meter.response_bits[1] /\ data_line = 0)

C10_Witness ==
  /\ meter.fresh /\ meter.transmitting /\ meter.pulse_count = WakeUpThreshold
  /\ meter.bit_index = 1 /\ data_line = 0

\* C11: one response cycle drives buffer[0], buffer[1], ..., buffer[L-1] on L consecutive
\* rising edges starting with the wake edge: the bit index grows by exactly 1 per edge,
\* no bit is skipped or driven twice, the cycle closes on the edge of the last bit, and
\* the buffer is not modified.
C11_ResponseCycle ==
  [][(edge_pending /\ ~edge_pending') =>
       /\ meter'.response_bits = meter.response_bits
       /\ (~meter.transmitting /\ meter'.transmitting) =>
            (meter'.bit_index = 1 /\ data_line' = meter.response_bits[1])
       /\ (meter.transmitting /\ ~long_gap) =>
            /\ meter.bit_index >= 1 /\ meter.bit_index < Len(meter.response_bits)
            /\ data_line' = meter.response_bits[meter.bit_index + 1]
            /\ IF meter.bit_index + 1 = Len(meter.response_bits)
                 THEN ~meter'.transmitting /\ meter'.bit_index = 0
                 ELSE meter'.transmitting /\ meter'.bit_index = meter.bit_index + 1]_vars

C11_Witness ==
  /\ Len(meter_config.response_message) = 1
  /\ meter.response_bits = build_response_frames(meter_config)
  /\ ~meter.transmitting /\ meter.pulse_count = 0 /\ meter.fresh
  /\ op.pc = "race" /\ Len(tx.samples) > WakeUpThreshold

\* a bit sequence laid out as a frame of framing f: start 0, seven data bits, the parity
\* bit equal to their XOR, stop bit(s) 1
WellFormed(bits, f) ==
  /\ Len(bits) = bits_per_frame(f)
  /\ bits[1] = 0
  /\ \A i \in 10..bits_per_frame(f) : bits[i] = 1
  /\ bits[9] = (bits[2] + bits[3] + bits[4] + bits[5] + bits[6] + bits[7] + bits[8]) % 2

DataValue(bits) ==
  bits[2] + 2 * bits[3] + 4 * bits[4] + 8 * bits[5] + 16 * bits[6] + 32 * bits[7]
  + 64 * bits[8]

\* C12: for every byte and framing the METER's encoder produces exactly
\* bits_per_frame(framing) bits laid out as [0, d0..d6, p, 1] (plus a second 1 for two
\* stop bits) with d0..d6 the low seven bits and p their XOR; the eighth bit of the byte
\* is not transmitted.
C12_EncoderLayout ==
  unit.kind = "encoded" =>
    /\ Len(unit.bits) = bits_per_frame(unit.framing)
    /\ unit.bits = WireFrame(unit.byte, unit.framing)

\* C13: for every byte b in 0..127 and both framings, decoding the frame the encoder
\* produces for b succeeds and returns b.
C13_RoundTrip ==
  (unit.kind = "encoded" /\ unit.byte <= 127 /\ unit.decoded # None) =>
    (unit.decoded[1].err = "Ok" /\ unit.decoded[1].ch = unit.byte)

\* C14: validate succeeds on every well-formed bit sequence, and fails with
\* ParityMismatch when exactly one data bit or the parity bit of such a sequence is
\* flipped.
C14_Parity ==
  /\ (unit.kind = "candidate" /\ unit.validated # None
        /\ WellFormed(unit.bits, unit.framing)) => unit.validated[1] = "Ok"
  /\ (unit.kind = "flipped" /\ unit.validated # None
        /\ WellFormed(unit.base, unit.framing)) =>
         unit.validated[1] = "FramingErrorParityMismatch"

C14_Witness ==
  /\ unit.kind = "flipped" /\ unit.framing = "SevenE2" /\ unit.flip = 8
  /\ WellFormed(unit.base, unit.framing)
  /\ unit.validated = Some("FramingErrorParityMismatch")

\* the error kind the first defect of a candidate calls for
FirstDefect(bits, f) ==
  IF Len(bits) # bits_per_frame(f) THEN "FramingErrorInvalidBitCount"
  ELSE IF bits[1] # 0 THEN "FramingErrorInvalidStartBit"
  ELSE IF \E i \in 10..bits_per_frame(f) : bits[i] # 1 THEN "FramingErrorInvalidStopBit"
  ELSE IF ~WellFormed(bits, f) THEN "FramingErrorParityMismatch"
  ELSE "Ok"

\* C15: decoding a candidate bit sequence fails with the error kind of its first defect,
\* in the order InvalidBitCount, InvalidStartBit, InvalidStopBit, ParityMismatch.
C15_ErrorKinds ==
  (unit.kind \in {"candidate", "flipped"} /\ unit.decoded # None) =>
    unit.decoded[1].err = FirstDefect(unit.bits, unit.framing)

\* C16: a frame that passes validate decodes to the sum of d_i * 2^i over the data bits
\* at positions 1..7, within 0..127, whatever the parity and stop bits are; a frame that
\* fails validate yields no value.
C16_DecodedValue ==
  (unit.kind \in {"candidate", "flipped"} /\ unit.decoded # None) =>
    /\ (unit.decoded[1].err = "Ok") <=> WellFormed(unit.bits, unit.framing)
    /\ unit.decoded[1].err = "Ok" =>
         (unit.decoded[1].ch = DataValue(unit.bits) /\ unit.decoded[1].ch \in 0..127)

C16_Witness ==
  /\ unit.kind = "candidate" /\ unit.framing = "SevenE2"
  /\ unit.decoded = Some([err |-> "Ok", ch |-> 127])

\* C18: for every baud rate set_baud_rate accepts, the cycle time derived for the
\* sampler is defined and positive: no division by zero, no zero-length cycle.
C18_CycleTimeDefined ==
  (unit.kind = "baud" /\ unit.cycle # None) =>
    (~unit.cycle[1].panic /\ unit.cycle[1].micros > 0)

\* C17: after a transaction that ends by timeout or cancellation the last-message slot
\* holds the CR-terminated message sealed during that transaction or the value it had
\* when the transaction started; characters of an unfinished message are never written.
C17_NoPartialStorage ==
  /\ ((op.pc \in {"powerup", "race", "grade", "pause"} \/ tx.ended # "none")
        /\ tx.stores = 0) => last_message = tx.last0
  /\ tx.stores > 0 =>
       /\ last_message # None
       /\ last_message[1][Len(last_message[1])] = CR
       /\ \A i \in 1..(Len(last_message[1]) - 1) : last_message[1][i] # CR

C17_Witness ==
  /\ tx.ended \in {"clock", "data"} /\ tx.stopped /\ tx.stores = 0
  /\ op.pc = "grade"
  /\ dt.received_chars # <<>>
  /\ last_message = tx.last0

C20_Repeatable ==
  (/\ op.kind = "test" /\ op.pc = "idle" /\ result # None /\ events = 1
   /\ meter_config.enabled
   /\ framing_of(meter_config.meter_type) = config.framing
   /\ meter.response_bits = build_response_frames(meter_config)
   /\ config.expected_message = meter_config.response_message)
  => result = Some(<<op.iterations, 0>>)

\* C21: the cycle time the sampler uses throughout one transaction is the one in force
\* when the transaction started, even if set_baud_rate is called while it runs.
C21_ConfigPerTransaction ==
  (op.pc = "race" /\ clock.pc \in {"low_wait", "high_wait"}) =>
    clock.half_cycle = half_cycle_ticks(tx.baud0)

\* C22: a sampler cycle is CLK LOW, half-cycle wait, one read of DATA, one enqueue
\* attempt, CLK HIGH, half-cycle wait: DATA is read once per cycle while CLK is LOW, at
\* most one bit is enqueued per cycle, and the first cycle starts only after the power-up
\* hold with CLK HIGH.
C22_CycleOrder ==
  [][/\ (op.pc = "powerup" => clk = 1 /\ tx.cycles = 0)
     /\ (tx'.cycles = tx.cycles + 1 =>
           /\ op.pc = "race" /\ now >= PowerUpTicks
           /\ clk = 1 /\ clk' = 0
           /\ Len(tx.samples) = tx.cycles /\ tx'.samples = tx.samples
           /\ bit_channel' = bit_channel
           /\ (tx.cycles > 0 => clock.pc = "high_wait" /\ clock.timer <= now)
           /\ clock'.timer = now + clock'.half_cycle)
     /\ (Len(tx'.samples) = Len(tx.samples) + 1 =>
           /\ clk = 0 /\ clk' = 1
           /\ clock.pc = "low_wait" /\ clock.timer <= now
           /\ Len(tx'.samples) = tx.cycles /\ tx'.cycles = tx.cycles
           /\ tx'.samples = Append(tx.samples, data_line)
           /\ Len(bit_channel') <= Len(bit_channel) + 1
           /\ clock'.timer = now + clock.half_cycle)
     /\ (Len(bit_channel') > Len(bit_channel) => Len(tx'.samples) = Len(tx.samples) + 1)
    ]_vars

C22_Witness ==
  /\ op.pc = "race" /\ tx.cycles = 3 /\ Len(tx.samples) = 2
  /\ clk = 0 /\ clock.pc = "low_wait"

C25_InterEdgeTimeout ==
  [][(edge_pending /\ ~edge_pending' /\ ~meter.rebuilding /\ long_gap) =>
       IF meter.transmitting
         THEN /\ ~meter'.transmitting /\ meter'.bit_index = 0
              /\ meter'.pulse_count = 1
              /\ data_line' = data_line
              /\ meter'.response_bits = meter.response_bits
         ELSE /\ meter'.pulse_count = meter.pulse_count + 1
              /\ (meter'.transmitting => meter'.pulse_count >= WakeUpThreshold)
              /\ (~meter'.transmitting =>
                    /\ meter'.bit_index = meter.bit_index
                    /\ data_line' = data_line)
    ]_vars

C25_Witness ==
  /\ ~meter.fresh /\ ~meter.transmitting /\ meter.pulse_count = 1
  /\ meter.bit_index = 0 /\ ~edge_pending

\* C26: while TRANSMITTING a rising edge never restarts the buffer at bit 0 nor runs
\* the wake logic; bit 0 is driven only by an edge handled in IDLE whose pulse count
\* reaches the wake threshold.
C26_NoInterleaving ==
  [][/\ (edge_pending /\ ~edge_pending' /\ meter.transmitting /\ meter'.transmitting) =>
          /\ meter'.response_bits = meter.response_bits
          /\ IF meter.bit_index < Len(meter.response_bits)
               THEN /\ meter'.bit_index = meter.bit_index + 1
                    /\ data_line' = meter.response_bits[meter.bit_index + 1]
               ELSE meter'.bit_index = meter.bit_index /\ data_line' = data_line
     /\ (meter' # meter /\ meter'.transmitting /\ meter'.bit_index = 1) =>
          /\ ~meter.transmitting
          /\ meter'.pulse_count >= WakeUpThreshold
          /\ data_line' = meter'.response_bits[1]
    ]_vars

C26_Witness ==
  /\ meter.transmitting /\ meter.bit_index = 3
  /\ meter.pulse_count = WakeUpThreshold + 2 /\ ~edge_pending

\* C27: DATA changes level only in the rising-edge handler: no CLI command and no
\* timer writes it, and between two edges it keeps the level the last edge set.
C27_DataOnlyOnEdge ==
  [][data_line' # data_line =>
       \/ edge_pending /\ ~edge_pending' /\ ~meter.rebuilding
       \/ meter.rebuilding /\ ~meter'.rebuilding
    ]_vars

C27_Witness ==
  /\ test.active /\ dummy_data_pin = 0
  /\ meter.transmitting /\ meter.bit_index >= 2 /\ data_line = 1

RECURSIVE FrameInProgress(_, _, _)
FrameInProgress(stream, n, cur) ==
  IF stream = <<>> THEN cur
  ELSE IF Len(cur) = n THEN FrameInProgress(stream, n, <<>>)
  ELSE IF cur = <<>>
    THEN FrameInProgress(Tail(stream), n, IF Head(stream) = 0 THEN <<0>> ELSE <<>>)
  ELSE FrameInProgress(Tail(stream), n, Append(cur, Head(stream)))

\* C30: the reassembler discards every 1 while hunting, opens a frame with the first 0,
\* completes it with the next bits_per_frame - 1 dequeued bits in order, and resumes
\* hunting with the bit after the frame; bits consumed into a frame are never looked at
\* again as a start bit.
C30_Framing ==
  (op.pc = "race" /\ running) =>
    LET n == bits_per_frame(config.framing)
        cur == FrameInProgress(tx.dequeued, n, <<>>)
    IN /\ IF Len(cur) = n THEN dt.frame_bits \in {cur, <<>>} ELSE dt.frame_bits = cur
       /\ (dt.pc \in {"gather", "gather_recv"}) <=> (dt.frame_bits # <<>>)

C30_Witness ==
  /\ op.pc = "race" /\ running
  /\ wire = <<0, 1>> \o WireFrame(CR, config.framing)
  /\ Len(tx.dequeued) > bits_per_frame(config.framing) + 2
  /\ dt.received_chars = <<>> /\ last_message = None
  /\ Len(dt.frame_bits) = 2

\* the characters of the well-formed frames in stream, in order: 1s between frames are
\* skipped, a 0 opens a frame of the framing's length, an incomplete last frame is left out
RECURSIVE ValidChars(_, _, _)
ValidChars(stream, f, acc) ==
  IF stream = <<>> THEN acc
  ELSE IF Head(stream) = 1 THEN ValidChars(Tail(stream), f, acc)
  ELSE IF Len(stream) < bits_per_frame(f) THEN acc
  ELSE LET frame == SubSeq(stream, 1, bits_per_frame(f)) IN
       ValidChars(SubSeq(stream, bits_per_frame(f) + 1, Len(stream)), f,
                  IF WellFormed(frame, f) THEN Append(acc, DataValue(frame)) ELSE acc)

\* the step of the reassembler that gives up a frame: a complete frame that fails
\* validation, or a gather whose bit timer has expired
FrameGivenUp ==
  /\ op.pc = "race" /\ phase = "data"
  /\ \/ /\ dt.pc = "gather" /\ Len(dt.frame_bits) = bits_per_frame(config.framing)
        /\ ~WellFormed(dt.frame_bits, config.framing)
     \/ /\ dt.pc = "gather_recv" /\ bit_channel = <<>> /\ dt.bit_timer <= now

\* C31: a frame that fails validation, or a gather abandoned by the per-bit timeout,
\* appends nothing to the message buffer, leaves the accumulated characters unchanged,
\* changes no counter, does not end the transaction and returns the reassembler to
\* start-hunt; the characters accumulated and the message stored are those of the
\* frames that passed validation, in arrival order.
C31_LocalRecovery ==
  /\ [](LET consumed == SubSeq(tx.dequeued, 1, Len(tx.dequeued) - Len(dt.frame_bits))
            chars == ValidChars(consumed, config.framing, <<>>)
        IN /\ tx.stores = 0 => dt.received_chars = chars
           /\ tx.stores > 0 => last_message = Some(chars))
  /\ [][(FrameGivenUp /\ dt' # dt) =>
          /\ dt'.received_chars = dt.received_chars
          /\ dt'.pc = "hunt" /\ dt'.frame_bits = <<>>
          /\ last_message' = last_message
          /\ config' = config
          /\ op' = op /\ running' = running /\ tx'.ended = tx.ended
          /\ tx'.stores = tx.stores
       ]_vars

C31_Witness ==
  /\ op.pc = "race" /\ running /\ tx.ended = "none"
  /\ wire = WireFrame(65, config.framing) \o <<1>> \o FlipBit(WireFrame(CR, config.framing), 9)
  /\ dt.pc = "hunt" /\ dt.received_chars = <<65>>
  /\ Len(tx.dequeued) >= 2 * bits_per_frame(config.framing) + 1
  /\ last_message = None

\* C32: whenever a transaction ends by timeout or cancellation while the reassembler
\* holds at least one character of an unfinished message, a PartialMessage diagnostic
\* carrying the character count is emitted for that transaction.
C32_PartialReported ==
  (tx.ended # "none" /\ tx.stores = 0 /\ dt.received_chars # <<>>) =>
    tx.partial = Some(Len(dt.received_chars))

\* C33: when stop() clears the running flag while a transaction is in progress (in the
\* power-up hold, with the reassembler blocked in the start-bit hunt, or mid-frame), the
\* sampler starts no new cycle after the one in progress, the transaction ends within
\* that cycle instead of waiting for max_duration, CLK is HIGH and the result is graded
\* exactly once.
C33_StopEnds ==
  /\ [][(tx.stopped /\ tx'.stopped) => tx'.cycles = tx.cycles]_vars
  /\ []((tx.stopped /\ tx.ended # "none") =>
          /\ clk = 1 /\ ~running
          /\ now <= tx.stop_now + (IF tx.cycles = 0 THEN PowerUpTicks ELSE 2 * HalfCycle)
          /\ tx.graded = (IF op.pc = "grade" THEN 0 ELSE 1))
  /\ tx.stopped ~> (tx.ended # "none")

C33_Witness ==
  /\ tx.stopped /\ tx.ended = "clock" /\ op.pc = "idle" /\ tx.graded = 1
  /\ tx.cycles = 3 /\ Len(tx.samples) = 3 /\ now = tx.stop_now + HalfCycle
  /\ now < deadline
  /\ dt.pc = "gather_recv" /\ Len(dt.frame_bits) >= 2

\* C34: bits left in the bit queue when a transaction ends are never delivered to the
\* reassembler of a later transaction on the same session: the queue is empty whenever
\* a transaction is suspended, has ended or begins, and the bits a transaction's
\* reassembler has dequeued are the first of the samples taken during that transaction.
C34_NoStaleBits ==
  /\ (op.pc \in {"powerup", "grade", "pause", "idle"} \/ phase = "sleep") =>
       bit_channel = <<>>
  /\ Len(tx.dequeued) <= Len(tx.samples)
  /\ \A i \in 1..Len(tx.dequeued) : tx.dequeued[i] = sample_bit(tx.samples[i])

C34_Witness ==
  /\ op.kind = "test" /\ op.iteration = 2 /\ op.corrupted_messages = 1
  /\ op.pc = "race" /\ Len(tx.dequeued) = 3 /\ dt.pc = "gather_recv"
  /\ wire = WireFrame(65, config.framing)

\* C35: every value written to the last-message slot is a non-empty string of 7-bit
\* characters that ends with CR and holds no other CR, also when more characters than
\* the message buffer holds (256) were decoded before the CR arrived.
C35_StoredMessage ==
  unit.stored # None =>
    LET m == unit.stored[1] IN
      /\ m # <<>>
      /\ \A i \in 1..Len(m) : m[i] \in 0..127 /\ ((m[i] = CR) <=> (i = Len(m)))

\* C36: a completed transmission leaves the pulse count at 0, and while IDLE the count
\* is never reset by elapsed time: every rising edge handled in IDLE adds one, whatever
\* the gap before it and whichever MTU transaction produced it, nothing else changes the
\* count, and the next response starts on exactly the edge that makes it 10.
C36_WakeAfterCompletion ==
  /\ [](~meter.transmitting => meter.pulse_count < WakeUpThreshold)
  /\ [][IF edge_pending /\ ~edge_pending'
          THEN /\ (meter.transmitting /\ ~meter'.transmitting /\ ~long_gap) =>
                    (meter'.pulse_count = 0 /\ meter'.bit_index = 0)
               /\ ~meter.transmitting =>
                    /\ meter'.pulse_count = meter.pulse_count + 1
                    /\ meter'.transmitting <=> (meter'.pulse_count = WakeUpThreshold)
                    /\ meter'.transmitting =>
                         (meter'.bit_index = 1 /\ data_line' = meter'.response_bits[1])
          ELSE meter' = meter
       ]_vars

C36_Witness ==
  /\ events = 2 /\ op.kind = "once" /\ op.pc = "race"
  /\ Len(tx.samples) <= 7 /\ ~tx.meter_idle0
  /\ meter.fresh /\ meter.transmitting /\ meter.bit_index = 1
  /\ meter.pulse_count = WakeUpThreshold

\* C37: in every MTU transaction the first buffer bit the METER drives is bit 0 of the
\* response buffer: when the previous transaction ended in the middle of a telegram, the
\* first rising edge of the new transaction makes the METER drive no later bit of that
\* telegram, even when it arrives within the inter-edge timeout.
C37_FirstBitIsBit0 ==
  [][(/\ edge_pending /\ ~edge_pending'
      /\ op.pc \in {"powerup", "race"} /\ Len(tx.samples) <= 1
      /\ meter.transmitting /\ meter.bit_index >= 1)
       => (~meter'.transmitting /\ meter'.bit_index = 0 /\ data_line' = data_line)
    ]_vars

\* C38: the bits transmitted in a response cycle are the frames, in order, of the
\* telegram and framing configured on the METER when the cycle starts: a set_response or
\* set_meter_type made while the bit-pump is IDLE takes effect in the next response.
C38_ConfiguredTelegram ==
  [][(edge_pending /\ ~edge_pending' /\ ~meter.transmitting /\ meter'.transmitting) =>
       /\ meter'.response_bits = build_response_frames(meter_config)
       /\ data_line' = build_response_frames(meter_config)[1]
    ]_vars

====
